---- MODULE Spec2Model ----
(***************************************************************************)
(* Model of backend/main.py of inventory-uploader: the two CSV ingestion   *)
(* handlers (upload_inventory, upload_orders), the stockout calculation    *)
(* (calculate_stockouts) and the stockout read (get_stockouts), together   *)
(* with the three warehouse tables they load and query.                    *)
(*                                                                         *)
(* Every cell of a dataframe or of a table is an option: <<>> is the       *)
(* missing value (NaN / NaT / NULL) and <<v>> is the value v.              *)
(***************************************************************************)
EXTENDS Integers, Sequences, FiniteSets, TLC

VARIABLES
    inventory,          \* table warehouse_data.inventory
    orders,             \* table warehouse_data.orders
    current_stockouts,  \* table warehouse_data.current_stockouts
    now,                \* the clock read by datetime.now() / CURRENT_TIMESTAMP()
    request,            \* the request the last handler served
    response,           \* what the last handler returned or raised
    warehouse_calls,    \* load/query calls the last handler issued
    fault,              \* whether the warehouse itself failed a call of the last handler
    initial,            \* the three tables as they were before the first call
    committed,          \* per kind, the df_final rows of the uploads that reported success
    last_written        \* the records of the last non-empty successful calculation

vars == <<inventory, orders, current_stockouts, now, request, response,
          warehouse_calls, fault, initial, committed, last_written>>

-----------------------------------------------------------------------------
(* Bounds of the exploration. *)

\* number of handler calls in one behaviour of the ingestion specification
MaxCalls == 2
\* number of handler calls in one behaviour of the stockout specification
MaxStockCalls == 3

-----------------------------------------------------------------------------
(* Values *)

NULL == <<>>
Some(v) == <<v>>
IsNull(c) == c = <<>>
Val(c) == c[1]

Range(f) == {f[x] : x \in DOMAIN f}
EmptyMap == [x \in {} |-> x]
\* Python: d[k] = v
Put(d, k, v) == [x \in (DOMAIN d) \cup {k} |-> IF x = k THEN v ELSE d[x]]
Restrict(f, S) == [x \in S |-> f[x]]
SetMin(S) == CHOOSE x \in S : \A y \in S : x <= y

\* str.lower() on the column names that occur in the uploaded headers
Lower(col) ==
    CASE col = "SKU" -> "sku"
      [] col = "Product_Name" -> "product_name"
      [] col = "Quantity" -> "quantity"
      [] col = "ID" -> "id"
      [] col = "Date" -> "date"
      [] OTHER -> col

\* str.endswith('.csv') on the file names that are uploaded
EndsWithCsv(filename) ==
    CASE filename = "data.csv" -> TRUE
      [] filename = "data.txt" -> FALSE
      [] filename = "csv" -> FALSE
      [] OTHER -> FALSE

-----------------------------------------------------------------------------
(* Canonical schemas and synonym tables *)

inventory_required_columns == {"sku_id", "name", "stock", "last_updated"}
orders_required_columns == {"order_id", "sku_id", "quantity", "order_date", "customer_id"}

inventory_sku_variations == {"sku_id", "sku", "product_id", "id", "item_id", "product_code"}
name_variations == {"name", "product_name", "item_name", "description", "title"}
stock_variations == {"stock", "quantity", "quantity_on_hand", "inventory", "available"}
date_variations == {"last_updated", "updated_at", "modified", "timestamp", "date"}

order_id_variations == {"order_id", "id", "order", "order_number"}
orders_sku_variations == {"sku_id", "sku", "product_id", "item_id"}
quantity_variations == {"quantity", "qty", "amount", "count"}
order_date_variations == {"order_date", "date", "created_at", "timestamp"}
customer_id_variations == {"customer_id", "customer", "buyer_id", "client_id"}

required_columns(kind) ==
    IF kind = "inventory" THEN inventory_required_columns ELSE orders_required_columns
numeric_field(kind) == IF kind = "inventory" THEN "stock" ELSE "quantity"
date_field(kind) == IF kind = "inventory" THEN "last_updated" ELSE "order_date"

-----------------------------------------------------------------------------
(* Auto-detection of the column mapping *)

\* a variant that falls back to the first column when no name matches
FirstMatchOrFirstColumn(auto_mapping, available_columns, variations, field) ==
    LET hits == {i \in DOMAIN available_columns :
                    Lower(available_columns[i]) \in variations}
    IN  IF hits = {} THEN Put(auto_mapping, available_columns[1], field)
        ELSE Put(auto_mapping, available_columns[SetMin(hits)], field)

\* for col in available_columns: if col.lower() in variations:
\*     auto_mapping[col] = field; break
FirstMatch(auto_mapping, available_columns, variations, field) ==
    LET hits == {i \in DOMAIN available_columns :
                    Lower(available_columns[i]) \in variations}
    IN  IF hits = {} THEN auto_mapping
        ELSE Put(auto_mapping, available_columns[SetMin(hits)], field)

\* the four loops of upload_inventory, in their order
inventory_auto_mapping(available_columns) ==
    LET m1 == FirstMatch(EmptyMap, available_columns, inventory_sku_variations, "sku_id")
        m2 == FirstMatch(m1, available_columns, name_variations, "name")
        m3 == FirstMatch(m2, available_columns, stock_variations, "stock")
    IN  FirstMatch(m3, available_columns, date_variations, "last_updated")

\* the body of the single loop of upload_orders: five independent ifs
OrdersMatchColumn(auto_mapping, col) ==
    LET m1 == IF Lower(col) \in order_id_variations
              THEN Put(auto_mapping, col, "order_id") ELSE auto_mapping
        m2 == IF Lower(col) \in orders_sku_variations
              THEN Put(m1, col, "sku_id") ELSE m1
        m3 == IF Lower(col) \in quantity_variations
              THEN Put(m2, col, "quantity") ELSE m2
        m4 == IF Lower(col) \in order_date_variations
              THEN Put(m3, col, "order_date") ELSE m3
    IN  IF Lower(col) \in customer_id_variations
        THEN Put(m4, col, "customer_id") ELSE m4

RECURSIVE OrdersScan(_, _, _)
OrdersScan(auto_mapping, available_columns, i) ==
    IF i > Len(available_columns) THEN auto_mapping
    ELSE OrdersScan(OrdersMatchColumn(auto_mapping, available_columns[i]),
                    available_columns, i + 1)

orders_auto_mapping(available_columns) == OrdersScan(EmptyMap, available_columns, 1)

auto_mapping_of(kind, available_columns) ==
    IF kind = "inventory" THEN inventory_auto_mapping(available_columns)
    ELSE orders_auto_mapping(available_columns)

-----------------------------------------------------------------------------
(* The column_mapping form field.  A value is [json |-> k] with k one of   *)
(*   "none"    the field is absent (None)                                  *)
(*   "empty"   the empty string                                            *)
(*   "invalid" a non-empty string json.loads rejects                       *)
(*   "list", "number", "string", "null"  valid JSON that is no object      *)
(*   "object"  a JSON object, whose parsed dict is the field obj           *)

NoMapping == [json |-> "none"]
\* Python truthiness of the form field: `not column_mapping`
IsFalsy(column_mapping) == column_mapping.json \in {"none", "empty"}
\* json.loads raises JSONDecodeError
JsonDecodeError(column_mapping) == column_mapping.json = "invalid"
\* json.loads returned something that has no .values()
NotADict(column_mapping) == column_mapping.json \in {"list", "number", "string", "null"}

-----------------------------------------------------------------------------
(* Resolution of the mapping: lines 43-89 and 133-175.  The result is the  *)
(* response to return or raise, or the mapping to continue with.           *)

HTTPException(status_code, detail, names) ==
    [status |-> "error", status_code |-> status_code, detail |-> detail, names |-> names]

MappingRequired(kind, available_columns, auto_mapping) ==
    [status |-> "mapping_required",
     message |-> "Column mapping required",
     available_columns |-> available_columns,
     required_columns |-> required_columns(kind),
     auto_detected_mapping |-> auto_mapping,
     missing_columns |-> required_columns(kind) \ Range(auto_mapping)]

Resolved(column_mapping) == [status |-> "resolved", column_mapping |-> column_mapping]

\* a variant that checks the source columns before the coverage
ValidateMappingSourcesFirst(kind, available_columns, column_mapping) ==
    LET mapped_columns == Range(column_mapping)
        source_columns == DOMAIN column_mapping
        available == {available_columns[i] : i \in DOMAIN available_columns}
    IN  IF ~(source_columns \subseteq available)
        THEN HTTPException(400, "Column mapping references non-existent columns",
                           source_columns \ available)
        ELSE IF ~(required_columns(kind) \subseteq mapped_columns)
        THEN HTTPException(400, "Missing required column mappings",
                           required_columns(kind) \ mapped_columns)
        ELSE Resolved(column_mapping)

\* lines 81-89 / 167-175
ValidateMapping(kind, available_columns, column_mapping) ==
    LET mapped_columns == Range(column_mapping)
        source_columns == DOMAIN column_mapping
        available == {available_columns[i] : i \in DOMAIN available_columns}
    IN  IF ~(required_columns(kind) \subseteq mapped_columns)
        THEN HTTPException(400, "Missing required column mappings",
                           required_columns(kind) \ mapped_columns)
        ELSE IF ~(source_columns \subseteq available)
        THEN HTTPException(400, "Column mapping references non-existent columns",
                           source_columns \ available)
        ELSE Resolved(column_mapping)

IngestFailure == HTTPException(500, "Failed to ingest data to BigQuery", {})

ResolveMapping(kind, available_columns, column_mapping) ==
    IF IsFalsy(column_mapping)
    THEN LET auto_mapping == auto_mapping_of(kind, available_columns)
         IN  IF ~(required_columns(kind) \subseteq Range(auto_mapping))
             THEN MappingRequired(kind, available_columns, auto_mapping)
             ELSE ValidateMapping(kind, available_columns, auto_mapping)
    ELSE IF JsonDecodeError(column_mapping)
    THEN HTTPException(400, "Invalid column mapping JSON format", {})
    ELSE IF NotADict(column_mapping)
    THEN IngestFailure   \* AttributeError at .values(), caught by `except Exception`
    ELSE ValidateMapping(kind, available_columns, column_mapping.obj)

-----------------------------------------------------------------------------
(* The dataframe: rename, projection and coercion, lines 90-97 / 176-183   *)

\* the column names after df.rename(columns=column_mapping)
Renamed(available_columns, column_mapping) ==
    [i \in DOMAIN available_columns |->
        IF available_columns[i] \in DOMAIN column_mapping
        THEN column_mapping[available_columns[i]]
        ELSE available_columns[i]]

\* the positions df_mapped[[field]] selects: every column of that name
Positions(renamed, field) == {i \in DOMAIN renamed : renamed[i] = field}

\* df_final has one column per selected position; a name selected twice is twice in it
final_columns(kind, renamed) ==
    [f \in required_columns(kind) |-> Cardinality(Positions(renamed, f))]

HasDuplicateColumn(kind, renamed) ==
    \E f \in required_columns(kind) : Cardinality(Positions(renamed, f)) > 1

\* the text cells pandas parses as numbers
IsNumericText(text) == text \in {"-2", "0", "1", "2", "3"}
NumberOf(text) ==
    CASE text = "-2" -> 0 - 2
      [] text = "0" -> 0
      [] text = "1" -> 1
      [] text = "2" -> 2
      [] text = "3" -> 3

\* pd.to_numeric(errors='coerce') on one cell
to_numeric(cell) ==
    IF IsNull(cell) \/ ~IsNumericText(Val(cell)) THEN NULL
    ELSE Some(NumberOf(Val(cell)))

\* .fillna(0) on one cell
fillna(cell) == IF IsNull(cell) THEN Some(0) ELSE cell

\* the text cells pd.to_datetime parses, and the timestamp of each.  The clock
\* starts at 1, so a parsed file date (0) is older than any datetime.now().
IsDateText(text) == text \in {"2024-01-01"}
TimestampOf(text) == CASE text = "2024-01-01" -> 0

\* pd.to_datetime raises on a cell that is present and unparsable; a missing
\* cell does not raise and becomes NaT
DatetimeRaises(column) ==
    \E k \in DOMAIN column : ~IsNull(column[k]) /\ ~IsDateText(Val(column[k]))

to_datetime(cell) == IF IsNull(cell) THEN NULL ELSE Some(TimestampOf(Val(cell)))

\* df_final of a dataframe in which every required column is selected once
df_final(kind, available_columns, rows, column_mapping, clock) ==
    LET renamed == Renamed(available_columns, column_mapping)
        pos(f) == CHOOSE i \in DOMAIN renamed : renamed[i] = f
        date_column == [k \in DOMAIN rows |-> rows[k][pos(date_field(kind))]]
    IN  [k \in DOMAIN rows |->
            [f \in required_columns(kind) |->
                IF f = numeric_field(kind) THEN fillna(to_numeric(rows[k][pos(f)]))
                ELSE IF f = date_field(kind)
                THEN IF DatetimeRaises(date_column) THEN Some(clock)
                     ELSE to_datetime(rows[k][pos(f)])
                ELSE rows[k][pos(f)]]]

-----------------------------------------------------------------------------
(* The warehouse.  A table is its schema (a set of column names; empty     *)
(* when the table does not exist yet) and its rows in load order, each a   *)
(* function from the schema to cells.                                      *)

NoTable == [schema |-> {}, rows |-> <<>>]

\* WRITE_APPEND: a load into a table that exists can only fill columns the
\* table has; the columns it does not fill are NULL
CanAppend(table, columns) == table.schema = {} \/ columns \subseteq table.schema

\* a variant that skips the rows the table already holds
AppendRowsDeduplicated(table, columns, rows) ==
    LET schema == IF table.schema = {} THEN columns ELSE table.schema
        filled == [k \in DOMAIN rows |->
                      [c \in schema |-> IF c \in columns THEN rows[k][c] ELSE NULL]]
    IN  [schema |-> schema,
         rows |-> table.rows \o
                  SelectSeq(filled, LAMBDA r : \A k \in DOMAIN table.rows : table.rows[k] # r)]

AppendRows(table, columns, rows) ==
    LET schema == IF table.schema = {} THEN columns ELSE table.schema
    IN  [schema |-> schema,
         rows |-> table.rows \o
                  [k \in DOMAIN rows |->
                      [c \in schema |-> IF c \in columns THEN rows[k][c] ELSE NULL]]]

\* a variant that loads with WRITE_APPEND
TruncateRowsAppending(table, columns, rows) ==
    [schema |-> columns, rows |-> table.rows \o rows]

\* WRITE_TRUNCATE: the table becomes the loaded dataframe
TruncateRows(table, columns, rows) == [schema |-> columns, rows |-> rows]

-----------------------------------------------------------------------------
(* upload_inventory and upload_orders.  A request is the file name, the    *)
(* parsed header of the file (or the fact that read_csv raises) and the    *)
(* column_mapping field; the rows of the file are chosen where the handler *)
(* first reads them.                                                       *)

\* what a column of an uploaded file is for, by its name
ColumnKind(col) ==
    IF Lower(col) \in stock_variations \cup quantity_variations \cup {"c"} THEN "number"
    ELSE IF Lower(col) \in date_variations \cup order_date_variations \cup {"d"} THEN "date"
    ELSE IF Lower(col) \in {"sku_id", "sku"} THEN "sku"
    ELSE "text"

NumberCells == {Some("2"), Some("abc"), NULL}
DateCells == {Some("2024-01-01"), Some("bad"), NULL}

\* a row: the sku cell in every sku column, the number cell in every number
\* column, the date cell in every date column, a fixed text elsewhere
Row(available_columns, sku_cell, number_cell, date_cell) ==
    [i \in DOMAIN available_columns |->
        CASE ColumnKind(available_columns[i]) = "number" -> number_cell
          [] ColumnKind(available_columns[i]) = "date" -> date_cell
          [] ColumnKind(available_columns[i]) = "sku" -> sku_cell
          [] OTHER -> Some("v")]

RowsOf(available_columns) ==
    {Row(available_columns, Some("A"), n, d) : n \in NumberCells, d \in DateCells}

\* the files with this header: one row, or a full row followed by a row whose
\* date is unparsable or missing
FileRows(available_columns) ==
    {<<r>> : r \in RowsOf(available_columns)}
    \cup {<<Row(available_columns, Some("A"), Some("2"), Some("2024-01-01")),
             Row(available_columns, Some("A"), Some("2"), d)>> : d \in {Some("bad"), NULL}}

Respond(req, resp, calls, failed) ==
    /\ request' = req
    /\ response' = resp
    /\ warehouse_calls' = calls
    /\ fault' = failed
    /\ now' = now + 1
    /\ UNCHANGED <<initial, last_written>>

Upload(kind, table, table_next, other_tables, req, files) ==
    LET available_columns == req.contents.columns
        resolved == ResolveMapping(kind, available_columns, req.column_mapping)
        renamed == Renamed(available_columns, resolved.column_mapping)
        Reject(resp, calls, failed) ==
            /\ Respond(req, resp, calls, failed)
            /\ table_next = table
            /\ UNCHANGED <<other_tables, committed>>
    IN  IF ~EndsWithCsv(req.filename)
        THEN Reject(HTTPException(400, "Invalid file type. Please upload a CSV file.", {}),
                    0, FALSE)
        ELSE IF ~req.contents.parses
        THEN Reject(IngestFailure, 0, FALSE)
        ELSE IF resolved.status # "resolved"
        THEN Reject(resolved, 0, FALSE)
        ELSE IF Cardinality(Positions(renamed, numeric_field(kind))) > 1
        THEN Reject(IngestFailure, 0, FALSE)  \* pd.to_numeric of a two-column frame: TypeError
        ELSE IF HasDuplicateColumn(kind, renamed)
        THEN Reject(IngestFailure, 1, FALSE)  \* the load refuses duplicate column names
        ELSE \E rows \in files[available_columns], job_ok \in BOOLEAN :
                LET df == df_final(kind, available_columns, rows,
                                   resolved.column_mapping, now)
                IN  IF job_ok /\ CanAppend(table, required_columns(kind))
                    THEN /\ table_next = AppendRows(table, required_columns(kind), df)
                         /\ Respond(req,
                                [status |-> "ok",
                                 rows_processed |-> Len(df),
                                 column_mapping_used |-> resolved.column_mapping,
                                 final_columns |-> final_columns(kind, renamed)], 1, FALSE)
                         /\ committed' = [committed EXCEPT ![kind] = @ \o df]
                         /\ UNCHANGED other_tables
                    ELSE Reject(IngestFailure, 1, ~job_ok)

upload_inventory(requests, files) ==
    \E req \in requests :
       Upload("inventory", inventory, inventory', <<orders, current_stockouts>>,
              [req EXCEPT !.op = "upload_inventory"], files)

upload_orders(requests, files) ==
    \E req \in requests :
       Upload("orders", orders, orders', <<inventory, current_stockouts>>,
              [req EXCEPT !.op = "upload_orders"], files)

-----------------------------------------------------------------------------
(* calculate_stockouts: the query of lines 216-260, then the load          *)

inventory_query_columns == {"sku_id", "name", "quantity_on_hand", "last_updated"}
orders_query_columns == {"sku_id", "quantity"}
stockout_columns ==
    {"sku_id", "name", "quantity_on_hand", "total_ordered_quantity",
     "remaining_quantity", "is_stockout", "last_updated", "calculation_timestamp"}

\* SUM(quantity) over the orders rows of one sku_id group; NULL quantities are
\* skipped, and the sum of no value is NULL
RECURSIVE SumQuantity(_, _, _)
SumQuantity(rows, sku_id, k) ==
    IF k > Len(rows) THEN NULL
    ELSE LET rest == SumQuantity(rows, sku_id, k + 1)
         IN  IF rows[k]["sku_id"] # sku_id \/ IsNull(rows[k]["quantity"]) THEN rest
             ELSE IF IsNull(rest) THEN rows[k]["quantity"]
             ELSE Some(Val(rows[k]["quantity"]) + Val(rest))

\* o.total_ordered_quantity of the LEFT JOIN: NULL when no orders group has the
\* inventory row's sku_id (a NULL sku_id joins nothing)
total_ordered_quantity(order_rows, sku_id) ==
    IF IsNull(sku_id) THEN NULL ELSE SumQuantity(order_rows, sku_id, 1)

COALESCE(cell, default) == IF IsNull(cell) THEN Some(default) ELSE cell

\* a variant that compares with <=
is_stockout_or_equal(quantity_on_hand, total) ==
    ~IsNull(quantity_on_hand) /\ Val(quantity_on_hand) <= Val(total)

\* i.quantity_on_hand < COALESCE(...): NULL (hence not TRUE) on a NULL quantity_on_hand
is_stockout(quantity_on_hand, total) ==
    ~IsNull(quantity_on_hand) /\ Val(quantity_on_hand) < Val(total)

\* one row of stockout_calculation
stockout_calculation(i, order_rows, clock) ==
    LET total == COALESCE(total_ordered_quantity(order_rows, i["sku_id"]), 0)
    IN  [sku_id |-> i["sku_id"],
         name |-> i["name"],
         quantity_on_hand |-> i["quantity_on_hand"],
         total_ordered_quantity |-> total,
         remaining_quantity |->
             IF IsNull(i["quantity_on_hand"]) THEN NULL
             ELSE Some(Val(i["quantity_on_hand"]) - Val(total)),
         is_stockout |-> Some(is_stockout(i["quantity_on_hand"], total)),
         last_updated |-> i["last_updated"],
         calculation_timestamp |-> Some(clock)]

\* ORDER BY remaining_quantity ASC: NULLs first, ties in any order
LeqRemaining(r1, r2) ==
    \/ IsNull(r1["remaining_quantity"])
    \/ /\ ~IsNull(r2["remaining_quantity"])
       /\ Val(r1["remaining_quantity"]) <= Val(r2["remaining_quantity"])

\* the orderings of the rows at the positions `picked` the ORDER BY allows
OrderedBy(rows, picked) ==
    LET n == Cardinality(picked)
        orders_of == {p \in [1..n -> picked] :
                        /\ \A a, b \in 1..n : a # b => p[a] # p[b]
                        /\ \A a \in 1..n : a < n => LeqRemaining(rows[p[a]], rows[p[a + 1]])}
    IN  {[a \in 1..n |-> rows[p[a]]] : p \in orders_of}

\* the result sets the stockout query may return: WHERE is_stockout = TRUE
stockout_query(inventory_rows, order_rows, clock) ==
    LET calc == [k \in DOMAIN inventory_rows |->
                    stockout_calculation(inventory_rows[k], order_rows, clock)]
    IN  OrderedBy(calc, {k \in DOMAIN calc : calc[k]["is_stockout"] = Some(TRUE)})

\* a variant that never takes the early return
NoStockoutsIgnored(stockout_data) == FALSE

\* `if not stockout_data`
NoStockouts(stockout_data) == stockout_data = <<>>

CalculateFailure == HTTPException(500, "Failed to calculate stockouts", {})

calculate_stockouts ==
    LET req == [op |-> "calculate_stockouts"]
    IN  \E query_ok \in BOOLEAN :
          IF ~(/\ query_ok
               /\ inventory_query_columns \subseteq inventory.schema
               /\ orders_query_columns \subseteq orders.schema)
          THEN /\ Respond(req, CalculateFailure, 1, ~query_ok)
               /\ UNCHANGED <<inventory, orders, current_stockouts, committed>>
          ELSE \E stockout_data \in stockout_query(inventory.rows, orders.rows, now) :
                 IF NoStockouts(stockout_data)
                 THEN /\ Respond(req,
                            [status |-> "ok",
                             message |-> "No stockouts found",
                             stockout_count |-> 0,
                             stockouts |-> <<>>], 1, FALSE)
                      /\ UNCHANGED <<inventory, orders, current_stockouts, committed>>
                 ELSE \E job_ok \in BOOLEAN :
                        IF job_ok
                        THEN /\ current_stockouts' =
                                   TruncateRows(current_stockouts, stockout_columns,
                                                stockout_data)
                             /\ request' = req
                             /\ response' =
                                   [status |-> "ok",
                                    message |-> "Stockout calculation completed successfully",
                                    stockout_count |-> Len(stockout_data),
                                    stockouts |-> stockout_data,
                                    table_updated |-> "current_stockouts"]
                             /\ warehouse_calls' = 2
                             /\ fault' = FALSE
                             /\ now' = now + 1
                             /\ last_written' = stockout_data
                             /\ UNCHANGED <<inventory, orders, committed, initial>>
                        ELSE /\ Respond(req, CalculateFailure, 2, TRUE)
                             /\ UNCHANGED <<inventory, orders, current_stockouts,
                                            committed>>

-----------------------------------------------------------------------------
(* get_stockouts *)

RetrieveFailure == HTTPException(500, "Failed to retrieve stockouts", {})

get_stockouts ==
    LET req == [op |-> "get_stockouts"]
    IN  /\ UNCHANGED <<inventory, orders, current_stockouts, committed>>
        /\ \E query_ok \in BOOLEAN :
             IF query_ok /\ stockout_columns \subseteq current_stockouts.schema
             THEN \E stockouts \in OrderedBy(current_stockouts.rows,
                                             DOMAIN current_stockouts.rows) :
                     Respond(req, [status |-> "ok",
                                   stockout_count |-> Len(stockouts),
                                   stockouts |-> stockouts], 1, FALSE)
             ELSE Respond(req, RetrieveFailure, 1, ~query_ok)

-----------------------------------------------------------------------------
(* The requests of the ingestion specification *)

\* the data rows a file of each request's header may hold
FilesOf(requests) ==
    [h \in {req.contents.columns : req \in requests} |-> FileRows(h)]

Header(columns) == [parses |-> TRUE, columns |-> columns]
Unparsable == [parses |-> FALSE, columns |-> <<>>]
Request(filename, contents, column_mapping) ==
    [op |-> "upload", filename |-> filename, contents |-> contents,
     column_mapping |-> column_mapping]
Object(obj) == [json |-> "object", obj |-> obj]
Without(f, keys) == Restrict(f, (DOMAIN f) \ keys)

InventoryCanonical == <<"sku_id", "name", "stock", "last_updated">>
InventoryHeaders ==
    {InventoryCanonical,
     <<"SKU", "Product_Name", "id", "Quantity", "Date">>,   \* "SKU" and "id" are both sku-like
     <<"sku", "title", "available">>,                       \* nothing date-like
     <<"a", "b", "c", "d", "e">>,                           \* nothing recognisable
     <<"sku_id", "b", "c", "d", "e">>}                      \* only the sku

InventoryBase ==
    Put(Put(Put(Put(EmptyMap, "a", "sku_id"), "b", "name"), "c", "stock"),
        "d", "last_updated")

NonObjects == {[json |-> k] : k \in {"empty", "invalid", "list", "number", "string", "null"}}

InventoryMappings ==
    {NoMapping} \cup NonObjects
    \cup {Object(Without(InventoryBase, D)) :
             D \in {{}, {"a"}, {"c"}, {"b", "d"}, {"a", "b", "c", "d"}}}
    \cup {Object(Put(InventoryBase, "e", t)) : t \in {"note", "name", "stock"}}
    \cup {Object(Put(InventoryBase, "zz", t)) : t \in {"note", "sku_id"}}
    \cup {Object(Put(Without(InventoryBase, {"b"}), "zz", "stock"))}

InventoryRequests ==
    {Request("data.txt", Header(InventoryCanonical), NoMapping),
     Request("data.csv", Unparsable, NoMapping),
     Request("data.csv", Unparsable, Object(InventoryBase))}
    \cup {Request("data.csv", Header(h), m) : h \in InventoryHeaders, m \in InventoryMappings}

OrdersCanonical == <<"order_id", "sku_id", "quantity", "order_date", "customer_id">>
OrdersHeaders ==
    {OrdersCanonical,
     <<"ID", "sku", "qty", "Date", "customer", "id">>,      \* "ID" and "id" are both order_id-like
     <<"order", "sku", "qty", "quantity", "date", "customer">>,  \* two quantity-like columns
     <<"order", "sku", "qty">>,                             \* no date, no customer
     <<"a", "b", "c", "d", "e", "f">>}                      \* nothing recognisable

OrdersBase ==
    Put(Put(Put(Put(Put(EmptyMap, "a", "order_id"), "b", "sku_id"), "c", "quantity"),
            "d", "order_date"), "e", "customer_id")

OrdersMappings ==
    {NoMapping} \cup NonObjects
    \cup {Object(Without(OrdersBase, D)) :
             D \in {{}, {"a"}, {"c"}, {"d", "e"}, {"a", "b", "c", "d", "e"}}}
    \cup {Object(Put(OrdersBase, "f", t)) : t \in {"note", "order_id", "quantity"}}
    \cup {Object(Put(OrdersBase, "zz", t)) : t \in {"note", "sku_id"}}
    \cup {Object(Put(Without(OrdersBase, {"b"}), "zz", "quantity"))}

OrdersRequests ==
    {Request("data.txt", Header(OrdersCanonical), NoMapping),
     Request("data.csv", Unparsable, NoMapping),
     Request("data.csv", Unparsable, Object(OrdersBase))}
    \cup {Request("data.csv", Header(h), m) : h \in OrdersHeaders, m \in OrdersMappings}

-----------------------------------------------------------------------------
(* Initial tables *)

Table(schema, rows) == [schema |-> schema, rows |-> rows]

InventoryRow(sku_id, quantity_on_hand) ==
    [sku_id |-> sku_id, name |-> Some("v"), quantity_on_hand |-> quantity_on_hand,
     last_updated |-> Some(0)]
\* a row of a table that has both a stock and a quantity_on_hand column
WideInventoryRow(sku_id, stock, quantity_on_hand) ==
    [sku_id |-> sku_id, name |-> Some("v"), stock |-> stock,
     quantity_on_hand |-> quantity_on_hand, last_updated |-> Some(0)]
OrdersRow(sku_id, quantity) ==
    [order_id |-> Some("v"), sku_id |-> sku_id, quantity |-> quantity,
     order_date |-> Some(0), customer_id |-> Some("v")]
StaleStockout ==
    [sku_id |-> Some("Z"), name |-> Some("v"), quantity_on_hand |-> Some(1),
     total_ordered_quantity |-> Some(4), remaining_quantity |-> Some(0 - 3),
     is_stockout |-> Some(TRUE), last_updated |-> Some(0),
     calculation_timestamp |-> Some(0)]

wide_inventory_columns == inventory_query_columns \cup {"stock"}

\* the tables the ingestion specification starts from: none yet, or all three
PopulatedInventory ==
    Table(wide_inventory_columns, <<WideInventoryRow(Some("A"), NULL, Some(2))>>)
PopulatedOrders == Table(orders_required_columns, <<OrdersRow(Some("A"), Some(3))>>)
PopulatedStockouts == Table(stockout_columns, <<StaleStockout>>)

NoRequest == [op |-> "none"]
NoResponse == [status |-> "none"]

InitWith(inventories, orderses, stockoutses) ==
    /\ inventory \in inventories
    /\ orders \in orderses
    /\ current_stockouts \in stockoutses
    /\ now = 1
    /\ request = NoRequest
    /\ response = NoResponse
    /\ warehouse_calls = 0
    /\ fault = FALSE
    /\ initial = [inventory |-> inventory, orders |-> orders,
                  current_stockouts |-> current_stockouts]
    /\ committed = [inventory |-> <<>>, orders |-> <<>>]
    /\ last_written = current_stockouts.rows

\* the handlers run one at a time, each to its end
Idle(max_calls) == request = NoRequest /\ now <= max_calls

\* the response has been sent: the request and all it held are gone
complete_request ==
    /\ request # NoRequest
    /\ request' = NoRequest
    /\ response' = NoResponse
    /\ warehouse_calls' = 0
    /\ fault' = FALSE
    /\ UNCHANGED <<inventory, orders, current_stockouts, now, initial, committed,
                   last_written>>

-----------------------------------------------------------------------------
(* The ingestion specification: every kind of request, a few calls *)

Init ==
    \/ InitWith({NoTable}, {NoTable}, {NoTable})
    \/ InitWith({PopulatedInventory}, {PopulatedOrders}, {PopulatedStockouts})

UploadInventory == Idle(MaxCalls) /\ upload_inventory(InventoryRequests, FilesOf(InventoryRequests))
UploadOrders == Idle(MaxCalls) /\ upload_orders(OrdersRequests, FilesOf(OrdersRequests))
CalculateStockouts == Idle(MaxCalls) /\ calculate_stockouts
GetStockouts == Idle(MaxCalls) /\ get_stockouts

Next ==
    \/ UploadInventory
    \/ UploadOrders
    \/ CalculateStockouts
    \/ GetStockouts
    \/ complete_request

Spec == Init /\ [][Next]_vars

-----------------------------------------------------------------------------
(* The stockout specification: plain uploads, more calls, more tables *)

StockRowsOf(available_columns) ==
    IF available_columns = InventoryCanonical
    THEN {<<Row(available_columns, Some("A"), n, Some("2024-01-01"))>> :
             n \in {Some("1"), Some("3")}}
    ELSE {<<Row(available_columns, k, n, Some("2024-01-01"))>> :
             k \in {Some("A"), Some("B")}, n \in {Some("2"), Some("-2")}}

StockFilesOf(requests) ==
    [h \in {req.contents.columns : req \in requests} |-> StockRowsOf(h)]

StockInventoryRequests ==
    {Request("data.csv", Header(InventoryCanonical), NoMapping),
     Request("data.csv", Header(<<"sku", "title", "available">>), NoMapping)}
StockOrdersRequests ==
    {Request("data.csv", Header(OrdersCanonical), NoMapping),
     Request("data.csv", Header(<<"order", "sku", "qty">>), NoMapping)}

StockInitialInventory ==
    {NoTable,
     Table(wide_inventory_columns, <<>>),
     Table(inventory_query_columns, <<InventoryRow(Some("A"), Some(2))>>),
     Table(inventory_query_columns,
           <<InventoryRow(Some("A"), Some(2)), InventoryRow(Some("B"), Some(0 - 1))>>),
     Table(inventory_query_columns,
           <<InventoryRow(NULL, Some(1)), InventoryRow(Some("A"), NULL),
             InventoryRow(Some("B"), Some(0))>>)}
StockInitialOrders ==
    {NoTable,
     Table(orders_required_columns, <<OrdersRow(Some("A"), Some(2))>>),
     Table(orders_required_columns,
           <<OrdersRow(NULL, Some(3)), OrdersRow(Some("B"), NULL),
             OrdersRow(Some("A"), Some(3))>>)}
StockInitialStockouts == {NoTable, PopulatedStockouts}

InitStock == InitWith(StockInitialInventory, StockInitialOrders, StockInitialStockouts)

StockUploadInventory ==
    Idle(MaxStockCalls) /\ upload_inventory(StockInventoryRequests, StockFilesOf(StockInventoryRequests))
StockUploadOrders ==
    Idle(MaxStockCalls) /\ upload_orders(StockOrdersRequests, StockFilesOf(StockOrdersRequests))
StockCalculateStockouts == Idle(MaxStockCalls) /\ calculate_stockouts
StockGetStockouts == Idle(MaxStockCalls) /\ get_stockouts

NextStock ==
    \/ StockUploadInventory
    \/ StockUploadOrders
    \/ StockCalculateStockouts
    \/ StockGetStockouts
    \/ complete_request

SpecStock == InitStock /\ [][NextStock]_vars

-----------------------------------------------------------------------------
(* Properties.  What a claim says is stated from the request, the tables   *)
(* and the synonym tables, not from the handlers' own intermediate values. *)

IsUpload(req) == req.op \in {"upload_inventory", "upload_orders"}
KindOf(req) == IF req.op = "upload_inventory" THEN "inventory" ELSE "orders"
\* an upload that gets as far as the mapping: a .csv name and a parsable file
ReachesMapping(req) ==
    IsUpload(req) /\ EndsWithCsv(req.filename) /\ req.contents.parses
TableOf(kind) == IF kind = "inventory" THEN inventory ELSE orders

SynonymsOf(kind, field) ==
    IF kind = "inventory"
    THEN CASE field = "sku_id" -> inventory_sku_variations
           [] field = "name" -> name_variations
           [] field = "stock" -> stock_variations
           [] field = "last_updated" -> date_variations
    ELSE CASE field = "order_id" -> order_id_variations
           [] field = "sku_id" -> orders_sku_variations
           [] field = "quantity" -> quantity_variations
           [] field = "order_date" -> order_date_variations
           [] field = "customer_id" -> customer_id_variations

\* the positions of the header whose name is a synonym of the field
MatchesOf(kind, columns, field) ==
    {i \in DOMAIN columns : Lower(columns[i]) \in SynonymsOf(kind, field)}
MatchedFields(kind, columns) ==
    {f \in required_columns(kind) : MatchesOf(kind, columns, f) # {}}
SetMax(S) == CHOOSE x \in S : \A y \in S : y <= x

\* C1: an upload without a mapping whose header lacks a synonym of some canonical
\* field returns the mapping-required diagnostic, with missing_columns the
\* canonical fields that were not detected, issues no warehouse call and leaves
\* the three tables as they were.
C1_MappingRequired ==
    [][(/\ request = NoRequest
        /\ ReachesMapping(request')
        /\ IsFalsy(request'.column_mapping)
        /\ MatchedFields(KindOf(request'), request'.contents.columns)
              # required_columns(KindOf(request')))
       => (/\ response'.status = "mapping_required"
           /\ response'.message = "Column mapping required"
           /\ response'.missing_columns =
                 required_columns(KindOf(request'))
                    \ Range(response'.auto_detected_mapping)
           /\ response'.missing_columns =
                 required_columns(KindOf(request'))
                    \ MatchedFields(KindOf(request'), request'.contents.columns)
           /\ warehouse_calls' = 0
           /\ UNCHANGED <<inventory, orders, current_stockouts>>)]_vars

C1_Witness ==
    /\ request.op = "upload_orders"
    /\ request.column_mapping = NoMapping
    /\ response.status = "mapping_required"
    /\ response.missing_columns = {"order_date", "customer_id"}
    /\ orders = PopulatedOrders

\* C2: without a mapping, when the header has two columns that are synonyms of one
\* canonical field (and every field has a synonym), the mapping the upload goes on
\* with gives that field exactly one source column: the later one for orders, the
\* earlier one for inventory.
C2_OneSourcePerField ==
    (/\ ReachesMapping(request)
     /\ IsFalsy(request.column_mapping)
     /\ MatchedFields(KindOf(request), request.contents.columns)
           = required_columns(KindOf(request)))
    => LET kind == KindOf(request)
           columns == request.contents.columns
           used == ResolveMapping(kind, columns, request.column_mapping)
       IN  /\ used.status = "resolved"
           /\ \A f \in required_columns(kind) :
                 Cardinality(MatchesOf(kind, columns, f)) >= 2
                 => {c \in DOMAIN used.column_mapping : used.column_mapping[c] = f}
                       = {columns[IF kind = "orders"
                                  THEN SetMax(MatchesOf(kind, columns, f))
                                  ELSE SetMin(MatchesOf(kind, columns, f))]}

\* C3: each table is its initial rows followed, in call order, by the whole
\* df_final of every upload that reported success, and by nothing else.
C3_AppendOnly ==
    \A kind \in {"inventory", "orders"} :
        LET rows == TableOf(kind).rows
            before == initial[kind].rows
            loaded == committed[kind]
        IN  /\ Len(rows) = Len(before) + Len(loaded)
            /\ \A k \in DOMAIN before : rows[k] = before[k]
            /\ \A k \in DOMAIN loaded :
                  \A f \in required_columns(kind) : rows[Len(before) + k][f] = loaded[k][f]

\* two successful uploads of the same content: the rows are there twice
C3_Witness ==
    /\ now = 3
    /\ Len(committed["inventory"]) = 2
    /\ committed["inventory"][1] = committed["inventory"][2]
    /\ Len(inventory.rows) = Len(initial["inventory"].rows) + 2
    /\ response.status = "ok"

\* C4: an explicit mapping that does not cover the canonical schema is rejected
\* naming exactly the uncovered fields; one that covers it but has a key that is
\* no column of the file is rejected naming exactly those keys; neither loads.
C4_MappingValidation ==
    (ReachesMapping(request) /\ request.column_mapping.json = "object")
    => LET kind == KindOf(request)
           mapping == request.column_mapping.obj
           columns == {request.contents.columns[i] : i \in DOMAIN request.contents.columns}
           uncovered == required_columns(kind) \ Range(mapping)
           unknown == (DOMAIN mapping) \ columns
       IN  /\ uncovered # {}
              => /\ response.status = "error"
                 /\ response.status_code = 400
                 /\ response.detail = "Missing required column mappings"
                 /\ response.names = uncovered
                 /\ warehouse_calls = 0
           /\ (uncovered = {} /\ unknown # {})
              => /\ response.status = "error"
                 /\ response.status_code = 400
                 /\ response.detail = "Column mapping references non-existent columns"
                 /\ response.names = unknown
                 /\ warehouse_calls = 0

C4_Witness ==
    /\ request.op = "upload_inventory"
    /\ request.column_mapping.json = "object"
    /\ Range(request.column_mapping.obj) = inventory_required_columns \cup {"note"}
    /\ response.status = "error"
    /\ response.detail = "Column mapping references non-existent columns"
    /\ response.names = {"zz"}

\* C8: every committed row has a value for each canonical field, a number in its
\* numeric field and a timestamp in its temporal field.
C8_FinalDatasetComplete ==
    \A kind \in {"inventory", "orders"} :
        \A k \in DOMAIN committed[kind] :
            /\ DOMAIN committed[kind][k] = required_columns(kind)
            /\ ~IsNull(committed[kind][k][numeric_field(kind)])
            /\ ~IsNull(committed[kind][k][date_field(kind)])

\* C9: a mapping string that is no JSON object (unparsable, or a list, a number, a
\* string, null) is rejected as a malformed mapping, and nothing is loaded.
C9_MalformedMapping ==
    (/\ ReachesMapping(request)
     /\ request.column_mapping.json \in {"invalid", "list", "number", "string", "null"})
    => /\ response.status = "error"
       /\ response.status_code = 400
       /\ response.detail = "Invalid column mapping JSON format"
       /\ warehouse_calls = 0

\* the same records, in any order
SameRecords(s, t) ==
    /\ Len(s) = Len(t)
    /\ \E p \in [DOMAIN s -> DOMAIN t] :
          /\ \A a, b \in DOMAIN s : a # b => p[a] # p[b]
          /\ \A a \in DOMAIN s : s[a] = t[p[a]]

RECURSIVE SumOver(_, _)
SumOver(rows, S) ==
    IF S = {} THEN 0
    ELSE LET k == CHOOSE k \in S : TRUE
         IN  Val(rows[k]["quantity"]) + SumOver(rows, S \ {k})

\* the quantity ordered of a sku_id: the sum over the orders rows that have this
\* sku_id and a quantity; 0 when there is none
OrderedTotal(sku_id) ==
    SumOver(orders.rows,
            {k \in DOMAIN orders.rows :
                /\ ~IsNull(sku_id)
                /\ orders.rows[k]["sku_id"] = sku_id
                /\ ~IsNull(orders.rows[k]["quantity"])})

\* the inventory rows that are out of stock: on hand strictly less than ordered
StockedOut ==
    {k \in DOMAIN inventory.rows :
        /\ ~IsNull(inventory.rows[k]["quantity_on_hand"])
        /\ Val(inventory.rows[k]["quantity_on_hand"])
              < OrderedTotal(inventory.rows[k]["sku_id"])}

QueryCanRun ==
    /\ inventory_query_columns \subseteq inventory.schema
    /\ orders_query_columns \subseteq orders.schema

\* C5: get_stockouts changes no table, and what it returns is the records of the
\* last calculation that succeeded with a non-empty result (the initial contents of
\* the table when there was none), whatever was uploaded or calculated since.
C5_GetReflectsLastWrite ==
    [][(request = NoRequest /\ request'.op = "get_stockouts")
       => (/\ UNCHANGED <<inventory, orders, current_stockouts>>
           /\ (~fault' /\ current_stockouts.schema # {}) => response'.status = "ok"
           /\ response'.status = "ok"
              => /\ SameRecords(response'.stockouts, last_written)
                 /\ response'.stockout_count = Len(last_written))]_vars

\* the records written at clock 1 are returned two calls later
C5_Witness ==
    /\ request.op = "get_stockouts"
    /\ response.status = "ok"
    /\ now = 4
    /\ last_written # initial["current_stockouts"].rows
    /\ response.stockouts = last_written
    /\ last_written[1]["calculation_timestamp"] = Some(1)

\* C6: a calculation whose stockout set is empty reports zero stockouts, issues the
\* query only, and leaves the three tables as they were.
C6_EmptyRunKeepsTable ==
    [][(/\ request = NoRequest
        /\ request'.op = "calculate_stockouts"
        /\ ~fault'
        /\ QueryCanRun
        /\ StockedOut = {})
       => (/\ response'.status = "ok"
           /\ response'.stockout_count = 0
           /\ response'.stockouts = <<>>
           /\ warehouse_calls' = 1
           /\ UNCHANGED <<inventory, orders, current_stockouts>>)]_vars

\* an empty run after a run that stored records: the records are still there
C6_Witness ==
    /\ request.op = "calculate_stockouts"
    /\ response.status = "ok"
    /\ response.stockout_count = 0
    /\ last_written # <<>>
    /\ last_written # initial["current_stockouts"].rows
    /\ current_stockouts.rows = last_written

\* C7: a successful calculation reports exactly the inventory rows whose quantity
\* on hand is strictly less than the quantity ordered of their sku_id, each with that
\* total and remaining = on hand - total.
C7_StockoutPredicate ==
    (request.op = "calculate_stockouts" /\ response.status = "ok")
    => /\ response.stockout_count = Cardinality(StockedOut)
       /\ Len(response.stockouts) = Cardinality(StockedOut)
       /\ \E p \in [DOMAIN response.stockouts -> StockedOut] :
             /\ \A a, b \in DOMAIN response.stockouts : a # b => p[a] # p[b]
             /\ \A a \in DOMAIN response.stockouts :
                   LET reported == response.stockouts[a]
                       i == inventory.rows[p[a]]
                       total == OrderedTotal(i["sku_id"])
                   IN  /\ reported["sku_id"] = i["sku_id"]
                       /\ reported["name"] = i["name"]
                       /\ reported["quantity_on_hand"] = i["quantity_on_hand"]
                       /\ reported["total_ordered_quantity"] = Some(total)
                       /\ reported["remaining_quantity"]
                             = Some(Val(i["quantity_on_hand"]) - total)
                       /\ reported["is_stockout"] = Some(TRUE)

\* one sku with as much on hand as ordered is left out, one with no orders and a
\* negative quantity on hand is reported
C7_Witness ==
    /\ request.op = "calculate_stockouts"
    /\ response.status = "ok"
    /\ \E k \in DOMAIN inventory.rows :
          /\ inventory.rows[k]["quantity_on_hand"]
                = Some(OrderedTotal(inventory.rows[k]["sku_id"]))
          /\ OrderedTotal(inventory.rows[k]["sku_id"]) > 0
    /\ \E a \in DOMAIN response.stockouts :
          /\ response.stockouts[a]["total_ordered_quantity"] = Some(0)
          /\ response.stockouts[a]["quantity_on_hand"] = Some(0 - 1)

\* C10: after one inventory row (k, s) was uploaded into an empty inventory table
\* and orders rows of k summing to q were uploaded into an empty orders table, a
\* calculation the warehouse does not fail succeeds, and reports k with
\* quantity_on_hand = s exactly when s < q.
C10_CalculationReadsUploadedStock ==
    (/\ request.op = "calculate_stockouts"
     /\ ~fault
     /\ initial["inventory"].rows = <<>>
     /\ initial["orders"].rows = <<>>
     /\ Len(committed["inventory"]) = 1
     /\ committed["orders"] # <<>>
     /\ \A k \in DOMAIN committed["orders"] :
           committed["orders"][k]["sku_id"] = committed["inventory"][1]["sku_id"])
    => /\ response.status = "ok"
       /\ LET s == Val(committed["inventory"][1]["stock"])
              q == SumOver(committed["orders"], DOMAIN committed["orders"])
          IN  (s < q) <=>
              \E a \in DOMAIN response.stockouts :
                 /\ response.stockouts[a]["sku_id"] = committed["inventory"][1]["sku_id"]
                 /\ response.stockouts[a]["quantity_on_hand"] = Some(s)

====
